---- MODULE Spec2Model ----
(***************************************************************************)
(* Model of the interactive chat session of the Open Interpreter plugin    *)
(* (src/src/main.ts): one spawned interpreter process, the chat modal that *)
(* owns it, the handlers of the process's stdout / stderr / close events   *)
(* and of the user's Send / Yes / No / dismiss actions.                    *)
(*                                                                         *)
(* Text is a sequence of one-character strings, so that trimming, suffix   *)
(* tests, slicing and concatenation are computed, not assumed.             *)
(***************************************************************************)
EXTENDS Integers, Sequences, FiniteSets, TLC

VARIABLES child, chat, hist, plugin

vars == <<child, chat, hist, plugin>>

(***************************************************************************)
(* Bounds of the model.                                                    *)
(***************************************************************************)
\* Output / submission events handled in one session under Spec.
MaxEvents == 3
\* Longest exhaustively enumerated padding around a chunk under SpecChunk.
MaxLen == 1
\* 'AI Command' invocations under SpecPlugin.
MaxInvocations == 2
\* Provider changes made in the settings tab under SpecSettings.
MaxChanges == 2
\* Initializations of the key storage, and lines of the .gitignore they
\* find, under SpecGitignore.
MaxInits == 2
MaxLines == 2
\* Events (output, submission, dismissal, exit, close) handled by all the
\* sessions under SpecPlugin.
MaxSessionEvents == 2

(***************************************************************************)
(* Text primitives.                                                        *)
(***************************************************************************)
\* Characters String.prototype.trim() strips (those of the model alphabet).
Whitespace == {" ", "\n", "\t", "\r"}

\* Characters the regular expression atom "." does not match.
LineTerminators == {"\n", "\r"}

\* Slice length of /.{1,1000}/g.
ChunkSize == 1000

Sentinel ==
  <<"W", "o", "u", "l", "d", " ", "y", "o", "u", " ", "l", "i", "k", "e", " ",
    "t", "o", " ", "r", "u", "n", " ", "t", "h", "i", "s", " ", "c", "o", "d",
    "e", "?", " ", "(", "y", "/", "n", ")">>

YouPrefix == <<"Y", "o", "u", ":", " ">>

ErrorPrefix == <<"E", "r", "r", "o", "r", ":", " ">>

ClosedPrefix ==
  <<"I", "n", "t", "e", "r", "p", "r", "e", "t", "e", "r", " ", "c", "l", "o",
    "s", "e", "d", " ", "w", "i", "t", "h", " ", "c", "o", "d", "e", " ">>

Newline == <<"\n">>

Min(a, b) == IF a <= b THEN a ELSE b

\* String.prototype.endsWith
EndsWith(s, suffix) ==
  /\ Len(s) >= Len(suffix)
  /\ SubSeq(s, Len(s) - Len(suffix) + 1, Len(s)) = suffix

RECURSIVE TrimStartIndex(_, _)
TrimStartIndex(s, i) ==
  IF i > Len(s) \/ s[i] \notin Whitespace THEN i ELSE TrimStartIndex(s, i + 1)

RECURSIVE TrimEndIndex(_, _)
TrimEndIndex(s, j) ==
  IF j = 0 \/ s[j] \notin Whitespace THEN j ELSE TrimEndIndex(s, j - 1)

\* String.prototype.trim: whitespace removed from both ends.
Trim(s) == SubSeq(s, TrimStartIndex(s, 1), TrimEndIndex(s, Len(s)))

Digit(d) == <<"0", "1", "2", "3", "4", "5", "6", "7", "8", "9">>[d + 1]

\* Decimal digits of a natural number.
RECURSIVE Decimal(_)
Decimal(n) == IF n < 10 THEN <<Digit(n)>> ELSE Decimal(n \div 10) \o <<Digit(n % 10)>>

\* Template literal `${code}` of the "close" event's code: a number, or null
\* when the process was ended by a signal.
FormatCode(status) ==
  IF status.signal THEN <<"n", "u", "l", "l">> ELSE Decimal(status.code)

\* Positions of s that "." cannot match.
LineBreaks(s) == {i \in 1..Len(s) : s[i] \in LineTerminators}

\* First position >= i that "." cannot match, or Len(s) + 1.
NextBreak(s, i) ==
  LET later == {j \in LineBreaks(s) : j >= i}
  IN IF later = {} THEN Len(s) + 1
     ELSE CHOOSE j \in later : \A k \in later : j <= k

\* Mutant of MatchChunks: the slices are one character too long.
RECURSIVE MatchChunksOffByOne(_, _)
MatchChunksOffByOne(s, i) ==
  IF i > Len(s) THEN <<>>
  ELSE IF s[i] \in LineTerminators THEN MatchChunksOffByOne(s, i + 1)
  ELSE LET stop == Min(NextBreak(s, i), i + ChunkSize + 1)
       IN <<SubSeq(s, i, stop - 1)>> \o MatchChunksOffByOne(s, stop)

\* text.match(/.{1,1000}/g) || [] : successive greedy matches of 1..1000
\* characters other than line terminators, scanning from position i.
RECURSIVE MatchChunks(_, _)
MatchChunks(s, i) ==
  IF i > Len(s) THEN <<>>
  ELSE IF s[i] \in LineTerminators THEN MatchChunks(s, i + 1)
  ELSE LET stop == Min(NextBreak(s, i), i + ChunkSize)
       IN <<SubSeq(s, i, stop - 1)>> \o MatchChunks(s, stop)

(***************************************************************************)
(* hist is a history record, not program state: the number of output and   *)
(* submission events handled (n), the last event and its payload (op,      *)
(* arg), the dispatched command, how often onClose and kill were run and   *)
(* the order of the teardown triggers.                                     *)
(***************************************************************************)
(***************************************************************************)
(* The chat modal and the child process as records; every method is an     *)
(* operator from a state st = [child, chat, hist] to the state after it.   *)
(***************************************************************************)
NoChild ==
  [spawned |-> FALSE, stdin |-> <<>>, killed |-> FALSE, exited |-> FALSE,
   exitCode |-> [code |-> 0, signal |-> FALSE], closeEmitted |-> FALSE]

NoChat ==
  [opened |-> FALSE, open |-> FALSE, attached |-> FALSE, outputEl |-> <<>>,
   inputValue |-> <<>>, inputDisplay |-> "", buttonDisplay |-> "",
   sendDisplay |-> "", variant |-> "main"]

NoHist ==
  [n |-> 0, op |-> "init", arg |-> <<>>, command |-> <<>>, onCloseRuns |-> 0,
   killCalls |-> 0, order |-> <<>>]

State == [child |-> child, chat |-> chat, hist |-> hist]

\* One 'AI Command' invocation, and the plugin before the first one.
NoInvocation ==
  [phase |-> "checking", result |-> [error |-> FALSE, stdout |-> <<>>],
   guide |-> FALSE, input |-> FALSE, submitted |-> FALSE, exec |-> "none",
   found |-> FALSE,
   command |-> <<>>]

NoPlugin ==
  [interpreterInstalled |-> FALSE, invocations |-> <<>>, modals |-> <<>>,
   sessions |-> <<>>, events |-> 0, hasVault |-> TRUE, hasKey |-> TRUE,
   tab |-> [open |-> FALSE, displayed |-> FALSE, options |-> "none",
            pending |-> 0, changes |-> 0],
   gitignore |-> [file |-> [exists |-> FALSE, content |-> <<>>],
                  original |-> [exists |-> FALSE, content |-> <<>>],
                  inits |-> 0],
   settings |-> [provider |-> "Anthropic", model |-> "claude-3-5-sonnet-20241022",
                 llmSupportsFunctions |-> FALSE, llmSupportsVision |-> FALSE]]

\* A session before its process is spawned.
NoSession == [child |-> NoChild, chat |-> NoChat, hist |-> NoHist]

\* showInputArea() of the earlier chat modal (src/unnamed/part_002): the Send
\* button is a local of onOpen and is never touched.
showInputAreaLegacy(st) ==
  [st EXCEPT !.chat.inputDisplay = "block",
             !.chat.buttonDisplay = "none"]

\* showYesNoButtons() of the earlier chat modal.
showYesNoButtonsLegacy(st) ==
  [st EXCEPT !.chat.inputDisplay = "none",
             !.chat.buttonDisplay = "block"]

\* showInputArea()
showInputArea(st) ==
  IF st.chat.variant = "part_002" THEN showInputAreaLegacy(st)
  ELSE [st EXCEPT !.chat.inputDisplay = "block",
                  !.chat.buttonDisplay = "none",
                  !.chat.sendDisplay = "block"]

\* Mutant of showYesNoButtons: the Send button stays visible.
showYesNoButtonsKeepsSend(st) ==
  [st EXCEPT !.chat.inputDisplay = "none",
             !.chat.buttonDisplay = "flex"]

\* showYesNoButtons()
showYesNoButtons(st) ==
  IF st.chat.variant = "part_002" THEN showYesNoButtonsLegacy(st)
  ELSE [st EXCEPT !.chat.inputDisplay = "none",
                  !.chat.buttonDisplay = "flex",
                  !.chat.sendDisplay = "none"]

\* Mutant of IsPrompt: the comparison ignores case.
IsPromptAnyCase(text) ==
  \/ EndsWith(Trim(text), Sentinel)
  \/ EndsWith(Trim(text), <<"w">> \o Tail(Sentinel))

\* The test of appendOutput that selects the input affordance.
IsPrompt(text) == EndsWith(Trim(text), Sentinel)

RECURSIVE JoinText(_)
JoinText(recs) ==
  IF recs = <<>> THEN <<>> ELSE Head(recs).text \o JoinText(Tail(recs))

\* Mutant of appendOutput: the prompt test runs on the accumulated transcript.
appendOutputBuffered(st, text, isError) ==
  LET chunks == MatchChunks(text, 1)
      recs == [i \in 1..Len(chunks) |-> [text |-> chunks[i], isError |-> isError]]
      st1 == [st EXCEPT !.chat.outputEl = @ \o recs]
  IN IF IsPrompt(JoinText(st1.chat.outputEl))
     THEN showYesNoButtons(st1) ELSE showInputArea(st1)

\* Mutant of appendOutput: an error text without the prompt leaves the
\* affordance as it is.
appendOutputSticky(st, text, isError) ==
  LET chunks == MatchChunks(text, 1)
      recs == [i \in 1..Len(chunks) |-> [text |-> chunks[i], isError |-> isError]]
      st1 == [st EXCEPT !.chat.outputEl = @ \o recs]
  IN IF IsPrompt(text) THEN showYesNoButtons(st1)
     ELSE IF isError THEN st1 ELSE showInputArea(st1)

\* Mutant of appendOutput: the error flag is dropped.
appendOutputUnflagged(st, text, isError) ==
  LET chunks == MatchChunks(text, 1)
      recs == [i \in 1..Len(chunks) |-> [text |-> chunks[i], isError |-> FALSE]]
      st1 == [st EXCEPT !.chat.outputEl = @ \o recs]
  IN IF IsPrompt(text) THEN showYesNoButtons(st1) ELSE showInputArea(st1)

\* Mutant of appendOutput: a prompt is answered with "y" at once.
appendOutputAutoYes(st, text, isError) ==
  LET chunks == MatchChunks(text, 1)
      recs == [i \in 1..Len(chunks) |-> [text |-> chunks[i], isError |-> isError]]
      st1 == [st EXCEPT !.chat.outputEl = @ \o recs]
  IN IF IsPrompt(text)
     THEN showInputArea([st1 EXCEPT !.child.stdin = Append(@, <<"y", "\n">>)])
     ELSE showInputArea(st1)

\* Mutant of appendOutput: the new records replace the transcript.
appendOutputReplaces(st, text, isError) ==
  LET chunks == MatchChunks(text, 1)
      recs == [i \in 1..Len(chunks) |-> [text |-> chunks[i], isError |-> isError]]
      st1 == [st EXCEPT !.chat.outputEl = recs]
  IN IF IsPrompt(text) THEN showYesNoButtons(st1) ELSE showInputArea(st1)

\* appendOutput(text, isError)
appendOutput(st, text, isError) ==
  LET chunks == MatchChunks(text, 1)
      recs == [i \in 1..Len(chunks) |-> [text |-> chunks[i], isError |-> isError]]
      st1 == [st EXCEPT !.chat.outputEl = @ \o recs]
  IN IF IsPrompt(text) THEN showYesNoButtons(st1) ELSE showInputArea(st1)

\* Mutant of stdinWrite: the payload overtakes the ones written before.
stdinWriteOvertakes(st, data) == [st EXCEPT !.child.stdin = <<data>> \o @]

\* interpreter.stdin.write(data)
stdinWrite(st, data) == [st EXCEPT !.child.stdin = Append(@, data)]

\* Mutant of sendMessage: the override argument is ignored.
sendMessageDraftOnly(st, override) ==
  LET message == st.chat.inputValue
      st1 == [st EXCEPT !.chat.inputValue = <<>>]
      st2 == [st1 EXCEPT !.child.stdin = Append(@, message \o Newline)]
      chunks == MatchChunks(YouPrefix \o message, 1)
      recs == [i \in 1..Len(chunks) |-> [text |-> chunks[i], isError |-> FALSE]]
  IN [st2 EXCEPT !.chat.outputEl = @ \o recs, !.chat.inputDisplay = "block",
                 !.chat.buttonDisplay = "none", !.chat.sendDisplay = "block"]

\* Mutant of sendMessage: the final showInputArea() is missing.
sendMessageNoReset(st, override) ==
  LET message == IF override # <<>> THEN override ELSE st.chat.inputValue
      st1 == IF override # <<>> THEN st ELSE [st EXCEPT !.chat.inputValue = <<>>]
      st2 == [st1 EXCEPT !.child.stdin = Append(@, message \o Newline)]
      chunks == MatchChunks(YouPrefix \o message, 1)
      recs == [i \in 1..Len(chunks) |-> [text |-> chunks[i], isError |-> FALSE]]
      st3 == [st2 EXCEPT !.chat.outputEl = @ \o recs]
  IN IF EndsWith(Trim(YouPrefix \o message), Sentinel)
     THEN [st3 EXCEPT !.chat.inputDisplay = "none", !.chat.buttonDisplay = "flex",
                      !.chat.sendDisplay = "none"]
     ELSE [st3 EXCEPT !.chat.inputDisplay = "block", !.chat.buttonDisplay = "none",
                      !.chat.sendDisplay = "block"]

\* Mutant of sendMessage: the text area is cleared on every submission.
sendMessageClearsAlways(st, override) ==
  LET message == IF override # <<>> THEN override ELSE st.chat.inputValue
      st1 == [st EXCEPT !.chat.inputValue = <<>>]
      st2 == stdinWrite(st1, message \o Newline)
      st3 == appendOutput(st2, YouPrefix \o message, FALSE)
  IN showInputArea(st3)

\* sendMessage(overrideMessage?) ; override = <<>> stands for "no argument"
\* (an empty string is falsy as well).
sendMessage(st, override) ==
  LET message == IF override # <<>> THEN override ELSE st.chat.inputValue
      st1 == IF override # <<>> THEN st ELSE [st EXCEPT !.chat.inputValue = <<>>]
      st2 == stdinWrite(st1, message \o Newline)
      st3 == appendOutput(st2, YouPrefix \o message, FALSE)
  IN showInputArea(st3)

\* ChildProcess.kill(): delivers SIGTERM and sets killed while the process
\* has not exited; returns false without effect once it has.
kill(st) ==
  LET st1 == [st EXCEPT !.hist.killCalls = @ + 1]
  IN IF st1.child.exited THEN st1 ELSE [st1 EXCEPT !.child.killed = TRUE]

\* Mutant of onClose: the interpreter is killed only in FreeText mode.
onCloseKillsInFreeText(st) ==
  LET st1 == IF st.chat.buttonDisplay = "none" THEN kill(st) ELSE st
  IN [st1 EXCEPT !.chat.attached = FALSE, !.hist.onCloseRuns = @ + 1]

\* Mutant of onClose: contentEl.empty() is missing.
onCloseKeepsContent(st) ==
  LET st1 == kill(st)
  IN [st1 EXCEPT !.hist.onCloseRuns = @ + 1]

\* onClose(): kill the interpreter, empty the modal content.
onClose(st) ==
  LET st1 == kill(st)
  IN [st1 EXCEPT !.chat.attached = FALSE, !.hist.onCloseRuns = @ + 1]

\* Modal.close() of the host application: closes the modal and runs onClose.
\* On a modal that is already closed the host either runs onClose again or
\* does nothing (rerun).
close(st, rerun) ==
  IF st.chat.open \/ rerun
  THEN onClose([st EXCEPT !.chat.open = FALSE])
  ELSE st

\* onOpen(): createInputArea, createButtons, setupInterpreterListeners.
onOpen(st) ==
  [st EXCEPT !.chat = [opened |-> TRUE, open |-> TRUE, attached |-> TRUE,
                       outputEl |-> <<>>, inputValue |-> <<>>,
                       inputDisplay |->
                         IF st.chat.variant = "part_002" THEN "block" ELSE "",
                       buttonDisplay |-> "none", sendDisplay |-> "",
                       variant |-> st.chat.variant]]

\* Mutant of startSession: the command is written without its newline.
startSessionNoNewline(st, command) ==
  LET st1 == [st EXCEPT !.child = [NoChild EXCEPT !.spawned = TRUE]]
      st2 == [st1 EXCEPT !.child.stdin = Append(@, command)]
  IN onOpen(st2)

\* Tail of executeInterpreterCommand: spawn, write the command, open the chat.
startSession(st, command) ==
  LET st1 == [st EXCEPT !.child = [NoChild EXCEPT !.spawned = TRUE]]
      st2 == stdinWrite(st1, command \o Newline)
  IN onOpen(st2)

\* Input mode shown by the modal.
Mode(c) == IF c.buttonDisplay # "none" THEN "Confirmation" ELSE "FreeText"

(***************************************************************************)
(* Inputs.                                                                 *)
(***************************************************************************)
Pad(n) == [i \in 1..n |-> "a"]

Hi == <<"h", "i">>

TwoLines == <<"a", "\n", "b">>

Commands == {<<>>, <<"l", "s">>}

\* The sentinel in lower case.
LowerSentinel == [i \in DOMAIN Sentinel |-> IF Sentinel[i] = "W" THEN "w" ELSE Sentinel[i]]

Alphabet == {"a", " ", "\n"}

RECURSIVE StrsOfLen(_)
StrsOfLen(k) ==
  IF k = 0 THEN {<<>>} ELSE {Append(s, ch) : s \in StrsOfLen(k - 1), ch \in Alphabet}

\* Every string over Alphabet of at most n characters.
Strs(n) == UNION {StrsOfLen(k) : k \in 0..n}

\* Middles of the chunks of SpecChunk: nothing, the prompt, its lower-case
\* variant, runs around one and two slice lengths, and a prompt that straddles
\* a slice border.
Cores ==
  {<<>>, Sentinel, LowerSentinel, Pad(ChunkSize - Len(YouPrefix) - 1),
   Pad(ChunkSize - 1), Pad(2 * ChunkSize - 1), Pad(ChunkSize - 1) \o Sentinel}

RichChunks == {pre \o core \o post : pre \in Strs(MaxLen), core \in Cores, post \in Strs(MaxLen)}

StdoutChunks == {<<"o", "k">>, Sentinel \o Newline, TwoLines}

StderrChunks == {<<"w", "a", "r", "n">>, Sentinel}

Drafts == {<<>>, Hi, Sentinel}

\* Exit statuses: a numeric code, or termination by a signal (code null).
ExitCodes ==
  {[code |-> 0, signal |-> FALSE], [code |-> 12, signal |-> FALSE],
   [code |-> 0, signal |-> TRUE]}

(***************************************************************************)
(* Actions: one per event handler.                                         *)
(***************************************************************************)
Apply(st) ==
  /\ child' = st.child
  /\ chat' = st.chat
  /\ hist' = st.hist
  /\ plugin' = plugin

Note(st, op, arg) == [st EXCEPT !.hist.n = @ + 1, !.hist.op = op, !.hist.arg = arg]

Init ==
  /\ child = NoChild
  /\ chat = NoChat
  /\ hist = NoHist
  /\ plugin = NoPlugin

\* executeInterpreterCommand(command) with every precondition met.
ExecuteInterpreterCommand(command) ==
  /\ ~child.spawned
  /\ Apply([startSession(State, command) EXCEPT !.hist.op = "start",
                                                !.hist.arg = command,
                                                !.hist.command = command])

Listening == chat.opened /\ ~child.closeEmitted

\* stdout "data" listener.
StdoutData(data, max) ==
  /\ Listening
  /\ hist.n < max
  /\ Apply(Note(appendOutput(State, data, FALSE), "stdout", data))

\* stderr "data" listener.
StderrData(data, max) ==
  /\ Listening
  /\ hist.n < max
  /\ Apply(Note(appendOutput(State, ErrorPrefix \o data, TRUE), "stderr", data))

\* The user edits the text area.
TypeInput(value) ==
  /\ chat.attached
  /\ chat.inputDisplay # "none"
  /\ chat.inputValue # value
  /\ Apply([State EXCEPT !.chat.inputValue = value, !.hist.op = "type",
                         !.hist.arg = value])

\* sendButton.onclick
ClickSend(max) ==
  /\ chat.attached
  /\ chat.sendDisplay # "none"
  /\ hist.n < max
  /\ Apply(Note(sendMessage(State, <<>>), "send", chat.inputValue))

\* yesButton.onclick
ClickYes(max) ==
  /\ chat.attached
  /\ chat.buttonDisplay # "none"
  /\ hist.n < max
  /\ Apply(Note(sendMessage(State, <<"y">>), "yes", <<"y">>))

\* noButton.onclick
ClickNo(max) ==
  /\ chat.attached
  /\ chat.buttonDisplay # "none"
  /\ hist.n < max
  /\ Apply(Note(sendMessage(State, <<"n">>), "no", <<"n">>))

\* The user dismisses the chat modal: Modal.close().
DismissModal ==
  /\ chat.open
  /\ Apply([close(State, FALSE) EXCEPT !.hist.op = "dismiss",
                                       !.hist.order = Append(@, "dismiss")])

\* The interpreter process ends (no handler of the plugin runs).
ProcessExit(code) ==
  /\ child.spawned
  /\ ~child.exited
  /\ Apply([State EXCEPT !.child.exited = TRUE, !.child.exitCode = code,
                         !.hist.op = "exit"])

\* Mutant of ProcessClose: the listener appends the notice and does not
\* close the modal.
ProcessCloseNoticeOnly(rerun) ==
  /\ chat.opened
  /\ child.exited
  /\ ~child.closeEmitted
  /\ LET st1 == [State EXCEPT !.child.closeEmitted = TRUE]
         st2 == appendOutput(st1, ClosedPrefix \o FormatCode(child.exitCode), FALSE)
     IN Apply([st2 EXCEPT !.hist.op = "close",
                          !.hist.order = Append(@, "close")])

\* Mutant of ProcessClose: the listener closes the modal without the notice.
ProcessCloseSilent(rerun) ==
  /\ chat.opened
  /\ child.exited
  /\ ~child.closeEmitted
  /\ LET st1 == [State EXCEPT !.child.closeEmitted = TRUE]
         st3 == close(st1, rerun)
     IN Apply([st3 EXCEPT !.hist.op = "close",
                          !.hist.order = Append(@, "close")])

\* Mutant of ProcessClose: the "close" event is delivered again and again.
ProcessCloseRepeats(rerun) ==
  /\ chat.opened
  /\ child.exited
  /\ LET st2 == appendOutput(State, ClosedPrefix \o FormatCode(child.exitCode), FALSE)
         st3 == close(st2, rerun)
     IN Apply([st3 EXCEPT !.hist.op = "close",
                          !.hist.order = Append(@, "close")])

\* Mutant of ProcessClose: the exit notice is put before the transcript.
ProcessCloseNoticeFirst(rerun) ==
  /\ chat.opened
  /\ child.exited
  /\ ~child.closeEmitted
  /\ LET st1 == [State EXCEPT !.child.closeEmitted = TRUE]
         st2 == appendOutput([st1 EXCEPT !.chat.outputEl = <<>>],
                             ClosedPrefix \o FormatCode(child.exitCode), FALSE)
         st3 == close([st2 EXCEPT !.chat.outputEl = @ \o chat.outputEl], rerun)
     IN Apply([st3 EXCEPT !.hist.op = "close",
                          !.hist.order = Append(@, "close")])

\* "close" listener of the process: exit notice, then this.close().
ProcessClose(rerun) ==
  /\ chat.opened
  /\ child.exited
  /\ ~child.closeEmitted
  /\ LET st1 == [State EXCEPT !.child.closeEmitted = TRUE]
         st2 == appendOutput(st1, ClosedPrefix \o FormatCode(child.exitCode), FALSE)
         st3 == close(st2, rerun)
     IN Apply([st3 EXCEPT !.hist.op = "close",
                          !.hist.order = Append(@, "close")])

Next ==
  \/ \E c \in Commands : ExecuteInterpreterCommand(c)
  \/ \E d \in StdoutChunks : StdoutData(d, MaxEvents)
  \/ \E d \in StderrChunks : StderrData(d, MaxEvents)
  \/ \E v \in Drafts : TypeInput(v)
  \/ ClickSend(MaxEvents)
  \/ ClickYes(MaxEvents)
  \/ ClickNo(MaxEvents)
  \/ DismissModal
  \/ \E code \in ExitCodes : ProcessExit(code)
  \/ \E r \in BOOLEAN : ProcessClose(r)

Spec == Init /\ [][Next]_vars

\* The plugin built with the earlier chat modal of src/unnamed/part_002.
InitLegacy ==
  /\ child = NoChild
  /\ chat = [NoChat EXCEPT !.variant = "part_002"]
  /\ hist = NoHist
  /\ plugin = NoPlugin

SpecLegacy == InitLegacy /\ [][Next]_vars

\* One handler application (one chunk or one submission) per session, over
\* the rich inputs.
NextChunk ==
  \/ \E c \in Commands : ExecuteInterpreterCommand(c)
  \/ \E d \in RichChunks : chat.inputValue = <<>> /\ StdoutData(d, 1)
  \/ \E d \in RichChunks : chat.inputValue = <<>> /\ StderrData(d, 1)
  \/ \E v \in RichChunks : chat.inputValue = <<>> /\ hist.n = 0 /\ TypeInput(v)
  \/ ClickSend(1)
  \/ ClickYes(2)
  \/ ClickNo(2)
  \/ \E code \in ExitCodes : ProcessExit(code)
  \/ \E r \in BOOLEAN : ProcessClose(r)

SpecChunk == Init /\ [][NextChunk]_vars

\* The sentinel cut at every position: its prefixes, and its suffixes with
\* and without a trailing line break.
SplitChunks ==
  UNION {{SubSeq(Sentinel, 1, k),
          SubSeq(Sentinel, k + 1, Len(Sentinel)),
          SubSeq(Sentinel, k + 1, Len(Sentinel)) \o Newline} : k \in 0..Len(Sentinel)}

\* Two consecutive stdout chunks per session, over the cuts of the sentinel.
NextSplit ==
  \/ \E c \in Commands : ExecuteInterpreterCommand(c)
  \/ \E d \in SplitChunks : StdoutData(d, 2)

SpecSplit == Init /\ [][NextSplit]_vars

\* The teardown of a session: a process that has been sent SIGTERM ends, and
\* the "close" event of a process that has ended is delivered.
NextTeardown ==
  \/ \E c \in Commands : ExecuteInterpreterCommand(c)
  \/ \E d \in {Sentinel \o Newline, <<"o", "k">>} : StdoutData(d, MaxEvents)
  \/ ClickSend(MaxEvents)
  \/ ClickYes(MaxEvents)
  \/ ClickNo(MaxEvents)
  \/ DismissModal
  \/ \E code \in ExitCodes : ProcessExit(code)
  \/ \E r \in BOOLEAN : ProcessClose(r)

KilledProcessExits == child.killed /\ \E code \in ExitCodes : ProcessExit(code)

CloseDelivered == \E r \in BOOLEAN : ProcessClose(r)

SpecTeardown ==
  /\ Init
  /\ [][NextTeardown]_vars
  /\ WF_vars(KilledProcessExits)
  /\ WF_vars(CloseDelivered)

(***************************************************************************)
(* The plugin: 'AI Command' invocations, the installation check, the       *)
(* command-input modal and the sessions they start.                        *)
(***************************************************************************)
\* Mutant of checkInterpreterInstallation: stdout is not trimmed.
checkInterpreterInstallationNoTrim(result) ==
  IF result.error THEN FALSE ELSE result.stdout # <<>>

\* checkInterpreterInstallation(): the value left in interpreterInstalled by
\* the callback of exec.
checkInterpreterInstallation(result) ==
  IF result.error THEN FALSE ELSE Trim(result.stdout) # <<>>

\* Outcomes of exec('$SHELL -i -c "which interpreter"').
CheckResults ==
  {[error |-> TRUE, stdout |-> <<>>],
   [error |-> FALSE, stdout |-> <<" ", "\n">>],
   [error |-> FALSE, stdout |-> <<"/", "i", "\n">>]}

\* Settings the plugin is loaded with: the defaults, and a Groq model.
Settings ==
  {NoPlugin.settings,
   [provider |-> "Groq", model |-> "llama-3.1-70b-versatile",
    llmSupportsFunctions |-> TRUE, llmSupportsVision |-> TRUE]}

\* The args array of executeInterpreterCommand.
BuildArgs(settings) ==
  <<"--model",
    IF settings.provider = "Groq" THEN "groq/" \o settings.model
    ELSE settings.model,
    "--context_window", "4000",
    "--max_tokens", "2048",
    IF settings.llmSupportsFunctions THEN "--llm_supports_functions"
    ELSE "--no-llm_supports_functions",
    IF settings.llmSupportsVision THEN "--llm_supports_vision"
    ELSE "--no-llm_supports_vision",
    "--custom_instructions", "customInstructions">>

\* The modal that receives the user's input: the one opened last.
TopModal == plugin.modals[Len(plugin.modals)]

TopIs(kind) == plugin.modals # <<>> /\ TopModal.kind = kind

\* The modals that stay open when modal m closes.
WithoutModal(m) ==
  LET Keep(x) == x # m IN SelectSeq(plugin.modals, Keep)

\* The continuation of an await that has been resolved runs before any other
\* callback.
Resolved(i) == plugin.invocations[i].phase = "resolved"

NoMicrotask == \A i \in DOMAIN plugin.invocations : ~Resolved(i)

\* The plugin after onload(), in a vault with or without a file system path
\* and with or without an API key for the provider of its settings.
InitPlugin ==
  /\ child = NoChild
  /\ chat = NoChat
  /\ hist = NoHist
  /\ \E v \in BOOLEAN, key \in BOOLEAN, s \in Settings :
       plugin = [NoPlugin EXCEPT !.hasVault = v, !.hasKey = key, !.settings = s]

ApplyPlugin(p) ==
  /\ plugin' = p
  /\ UNCHANGED <<child, chat, hist>>

\* The 'AI Command' callback: runInterpreter() up to its await.
RunInterpreter ==
  /\ NoMicrotask
  /\ plugin.modals = <<>>
  /\ ~plugin.tab.open
  /\ Len(plugin.invocations) < MaxInvocations
  /\ ApplyPlugin([plugin EXCEPT !.invocations = Append(@, NoInvocation)])

\* The callback of exec in checkInterpreterInstallation.
CheckCallback(i, result) ==
  /\ NoMicrotask
  /\ plugin.invocations[i].phase = "checking"
  /\ ApplyPlugin([plugin EXCEPT
       !.interpreterInstalled = checkInterpreterInstallation(result),
       !.invocations[i].phase = "resolved",
       !.invocations[i].result = result])

\* runInterpreter() after its await.
RunInterpreterResume(i) ==
  /\ Resolved(i)
  /\ IF ~plugin.interpreterInstalled
     THEN ApplyPlugin([plugin EXCEPT
            !.invocations[i].phase = "done",
            !.invocations[i].guide = TRUE,
            !.modals = Append(@, [kind |-> "guide", id |-> i])])
     ELSE ApplyPlugin([plugin EXCEPT
            !.invocations[i].phase = "done",
            !.invocations[i].input = TRUE,
            !.modals = Append(@, [kind |-> "input", id |-> i])])

\* The user dismisses the installation guide or the command-input modal.
DismissTop ==
  /\ NoMicrotask
  /\ TopIs("guide") \/ TopIs("input")
  /\ ApplyPlugin([plugin EXCEPT !.modals = WithoutModal(TopModal)])

\* Enter or Submit in the command-input modal: this.close(), then
\* executeInterpreterCommand(command) up to its await.
SubmitCommand(command) ==
  /\ NoMicrotask
  /\ TopIs("input")
  /\ LET i == TopModal.id
     IN ApplyPlugin([plugin EXCEPT
          !.modals = WithoutModal(TopModal),
          !.invocations[i].submitted = TRUE,
          !.invocations[i].command = command,
          !.invocations[i].exec = IF plugin.hasVault THEN "lookup" ELSE "noVault"])

\* Mutant of PathResolved: the process is spawned without an API key.
PathResolvedNoKeyCheck(i, found) ==
  /\ NoMicrotask
  /\ plugin.invocations[i].exec = "lookup"
  /\ IF ~found
     THEN ApplyPlugin([plugin EXCEPT !.invocations[i].exec = "noPath"])
     ELSE LET k == Len(plugin.sessions) + 1
              st == startSession(NoSession, plugin.invocations[i].command)
          IN ApplyPlugin([plugin EXCEPT
               !.invocations[i].exec = "spawned",
               !.invocations[i].found = TRUE,
               !.sessions = Append(@, [st |-> st, args |-> BuildArgs(plugin.settings),
                                       keyOf |-> plugin.settings.provider,
                                       inv |-> i, submits |-> 0]),
               !.modals = Append(@, [kind |-> "chat", id |-> k])])

\* executeInterpreterCommand(command) after its await: the notices of a
\* missing executable or API key, or spawn, the first write and the chat.
PathResolved(i, found) ==
  /\ NoMicrotask
  /\ plugin.invocations[i].exec = "lookup"
  /\ IF ~found
     THEN ApplyPlugin([plugin EXCEPT !.invocations[i].exec = "noPath"])
     ELSE IF ~plugin.hasKey
     THEN ApplyPlugin([plugin EXCEPT !.invocations[i].exec = "noKey",
                                     !.invocations[i].found = TRUE])
     ELSE LET k == Len(plugin.sessions) + 1
              st == startSession(NoSession, plugin.invocations[i].command)
          IN ApplyPlugin([plugin EXCEPT
               !.invocations[i].exec = "spawned",
               !.invocations[i].found = TRUE,
               !.sessions = Append(@, [st |-> st, args |-> BuildArgs(plugin.settings),
                                       keyOf |-> plugin.settings.provider,
                                       inv |-> i, submits |-> 0]),
               !.modals = Append(@, [kind |-> "chat", id |-> k])])

\* A handler of session k runs and leaves the session in state st.
ApplySession(k, st, submits) ==
  /\ plugin.events < MaxSessionEvents
  /\ ApplyPlugin([plugin EXCEPT
    !.events = @ + 1,
    !.sessions[k].st = st,
    !.sessions[k].submits = @ + submits,
    !.modals = IF st.chat.open THEN @
               ELSE WithoutModal([kind |-> "chat", id |-> k])])

SessionListening(k) ==
  LET s == plugin.sessions[k].st IN s.chat.opened /\ ~s.child.closeEmitted

\* stdout "data" listener of session k.
SessionStdout(k, data) ==
  /\ NoMicrotask
  /\ SessionListening(k)
  /\ ApplySession(k, Note(appendOutput(plugin.sessions[k].st, data, FALSE),
                          "stdout", data), 0)

\* Send, Yes or No in the chat modal of session k.
SessionSubmit(k, button) ==
  /\ NoMicrotask
  /\ TopIs("chat") /\ TopModal.id = k
  /\ LET s == plugin.sessions[k].st
     IN /\ IF button = "send" THEN s.chat.sendDisplay # "none"
           ELSE s.chat.buttonDisplay # "none"
        /\ ApplySession(k,
             Note(sendMessage(s, IF button = "yes" THEN <<"y">>
                                 ELSE IF button = "no" THEN <<"n">> ELSE <<>>),
                  button, s.chat.inputValue), 1)

\* The user dismisses the chat modal of session k.
SessionDismiss(k) ==
  /\ NoMicrotask
  /\ TopIs("chat") /\ TopModal.id = k
  /\ ApplySession(k, close(plugin.sessions[k].st, FALSE), 0)

\* The process of session k ends.
SessionExit(k, code) ==
  /\ NoMicrotask
  /\ ~plugin.sessions[k].st.child.exited
  /\ ApplySession(k, [plugin.sessions[k].st EXCEPT !.child.exited = TRUE,
                                                   !.child.exitCode = code], 0)

\* "close" listener of the process of session k.
SessionClose(k, rerun) ==
  /\ NoMicrotask
  /\ plugin.sessions[k].st.child.exited
  /\ ~plugin.sessions[k].st.child.closeEmitted
  /\ LET st1 == [plugin.sessions[k].st EXCEPT !.child.closeEmitted = TRUE]
         st2 == appendOutput(st1, ClosedPrefix \o FormatCode(st1.child.exitCode), FALSE)
     IN ApplySession(k, close(st2, rerun), 0)

NextPlugin ==
  \/ RunInterpreter
  \/ \E i \in DOMAIN plugin.invocations, r \in CheckResults : CheckCallback(i, r)
  \/ \E i \in DOMAIN plugin.invocations : RunInterpreterResume(i)
  \/ DismissTop
  \/ SubmitCommand(<<"l", "s">>)
  \/ \E i \in DOMAIN plugin.invocations, f \in BOOLEAN : PathResolved(i, f)
  \/ \E k \in DOMAIN plugin.sessions, d \in {Sentinel \o Newline, <<"o", "k">>} :
        SessionStdout(k, d)
  \/ \E k \in DOMAIN plugin.sessions, b \in {"send", "yes", "no"} :
        SessionSubmit(k, b)
  \/ \E k \in DOMAIN plugin.sessions : SessionDismiss(k)
  \/ \E k \in DOMAIN plugin.sessions : SessionExit(k, [code |-> 0, signal |-> FALSE])
  \/ \E k \in DOMAIN plugin.sessions, r \in BOOLEAN : SessionClose(k, r)

SpecPlugin == InitPlugin /\ [][NextPlugin]_vars

(***************************************************************************)
(* The settings tab: provider and model dropdowns, with one dispatch of    *)
(* 'AI Command' under way.                                                 *)
(***************************************************************************)
Providers == {"OpenAI", "Anthropic", "Groq"}

\* getModelsForProvider(provider): the keys, in the order of the literal.
getModelsForProvider(provider) ==
  CASE provider = "OpenAI" -> <<"gpt-4o", "gpt-4o-mini">>
    [] provider = "Anthropic" ->
         <<"claude-3-5-sonnet-20241022", "claude-3-opus-20240229">>
    [] provider = "Groq" ->
         <<"llama-3.1-70b-versatile", "llama-3.1-8b-instant", "mixtral-8x7b-32768">>
    [] OTHER -> <<>>

InSeq(x, s) == \E i \in DOMAIN s : s[i] = x

\* updateModelOptions(): rebuild the options of the model dropdown and fall
\* back to the first model when the current one is not listed.
updateModelOptions(p) ==
  IF p.tab.displayed
  THEN LET models == getModelsForProvider(p.settings.provider)
       IN [p EXCEPT !.tab.options = p.settings.provider,
                    !.settings.model = IF InSeq(@, models) THEN @ ELSE models[1]]
  ELSE p

\* The plugin after onload() with the default settings.
InitSettings ==
  /\ child = NoChild
  /\ chat = NoChat
  /\ hist = NoHist
  /\ plugin = NoPlugin

\* The user opens the settings tab: display().
DisplaySettings ==
  /\ NoMicrotask
  /\ plugin.modals = <<>>
  /\ ~plugin.tab.open
  /\ ApplyPlugin(updateModelOptions([plugin EXCEPT !.tab.open = TRUE,
                                                   !.tab.displayed = TRUE]))

\* The user closes the settings.
CloseSettings ==
  /\ NoMicrotask
  /\ plugin.modals = <<>>
  /\ plugin.tab.open
  /\ ApplyPlugin([plugin EXCEPT !.tab.open = FALSE])

\* onChange of the provider dropdown, up to await saveSettings().
ProviderChange(provider) ==
  /\ NoMicrotask
  /\ plugin.modals = <<>>
  /\ plugin.tab.open
  /\ provider # plugin.settings.provider
  /\ plugin.tab.changes < MaxChanges
  /\ ApplyPlugin([plugin EXCEPT !.settings.provider = provider,
                                !.tab.pending = @ + 1,
                                !.tab.changes = @ + 1])

\* onChange of the provider dropdown after its await: updateModelOptions().
ProviderChangeResume ==
  /\ NoMicrotask
  /\ plugin.tab.pending > 0
  /\ ApplyPlugin(updateModelOptions([plugin EXCEPT !.tab.pending = @ - 1]))

\* onChange of the model dropdown: one of the listed options is selected.
ModelChange(model) ==
  /\ NoMicrotask
  /\ plugin.modals = <<>>
  /\ plugin.tab.open
  /\ InSeq(model, getModelsForProvider(plugin.tab.options))
  /\ model # plugin.settings.model
  /\ ApplyPlugin([plugin EXCEPT !.settings.model = model])

NextSettings ==
  \/ DisplaySettings
  \/ CloseSettings
  \/ \E p \in Providers : ProviderChange(p)
  \/ ProviderChangeResume
  \/ \E p \in Providers :
       \E i \in DOMAIN getModelsForProvider(p) :
         ModelChange(getModelsForProvider(p)[i])
  \/ plugin.invocations = <<>> /\ RunInterpreter
  \/ \E i \in DOMAIN plugin.invocations, r \in CheckResults : CheckCallback(i, r)
  \/ \E i \in DOMAIN plugin.invocations : RunInterpreterResume(i)
  \/ DismissTop
  \/ SubmitCommand(<<"l", "s">>)
  \/ \E i \in DOMAIN plugin.invocations, f \in BOOLEAN : PathResolved(i, f)
  \/ \E k \in DOMAIN plugin.sessions : SessionDismiss(k)

SpecSettings == InitSettings /\ [][NextSettings]_vars

(***************************************************************************)
(* SecureKeyStorage: the .gitignore of the vault.                          *)
(***************************************************************************)
ignorePattern ==
  <<".", "o", "b", "s", "i", "d", "i", "a", "n", "/",
    ".", "k", "e", "y", "s", ".", "j", "s", "o", "n">>

RECURSIVE FirstNewline(_, _)
FirstNewline(s, i) ==
  IF i > Len(s) THEN 0
  ELSE IF s[i] = "\n" THEN i ELSE FirstNewline(s, i + 1)

\* String.prototype.split("\n")
RECURSIVE Split(_)
Split(s) ==
  LET k == FirstNewline(s, 1)
  IN IF k = 0 THEN <<s>>
     ELSE <<SubSeq(s, 1, k - 1)>> \o Split(SubSeq(s, k + 1, Len(s)))

\* Mutant of ensureStorageFile: the pattern is appended without a line break
\* before it.
ensureStorageFileNoBreak(file) ==
  LET gitignoreContent == IF file.exists THEN file.content ELSE <<>>
      lines == Split(gitignoreContent)
  IN IF \E i \in DOMAIN lines : Trim(lines[i]) = ignorePattern
     THEN file
     ELSE [exists |-> TRUE,
           content |-> gitignoreContent \o ignorePattern \o Newline]

\* ensureStorageFile(): the .gitignore it leaves. The read fails only for a
\* file that does not exist, the case its catch clause names.
ensureStorageFile(file) ==
  LET gitignoreContent == IF file.exists THEN file.content ELSE <<>>
      lines == Split(gitignoreContent)
  IN IF \E i \in DOMAIN lines : Trim(lines[i]) = ignorePattern
     THEN file
     ELSE [exists |-> TRUE,
           content |->
             IF gitignoreContent # <<>>
             THEN IF EndsWith(gitignoreContent, Newline)
                  THEN gitignoreContent \o ignorePattern \o Newline
                  ELSE gitignoreContent \o Newline \o ignorePattern \o Newline
             ELSE ignorePattern \o Newline]

\* Lines of a .gitignore: empty, the pattern, the pattern between white
\* space, another entry, and entries that contain the pattern.
GitignoreLines ==
  {<<>>, ignorePattern, <<" ">> \o ignorePattern \o <<"\r">>, <<"x">>,
   ignorePattern \o <<"x">>, <<"#">> \o ignorePattern}

RECURSIVE LinesJoined(_)
LinesJoined(n) ==
  IF n = 0 THEN {<<>>}
  ELSE LinesJoined(n - 1) \cup
       {l \o Newline \o rest : l \in GitignoreLines, rest \in LinesJoined(n - 1)}

\* The .gitignore found in the vault: none, or at most MaxLines lines.
GitignoreFiles ==
  {[exists |-> FALSE, content |-> <<>>]} \cup
  {[exists |-> TRUE, content |-> c] : c \in LinesJoined(MaxLines)} \cup
  {[exists |-> TRUE, content |-> c \o l] :
     c \in LinesJoined(MaxLines - 1), l \in GitignoreLines}

InitGitignore ==
  /\ child = NoChild
  /\ chat = NoChat
  /\ hist = NoHist
  /\ \E f \in GitignoreFiles :
       plugin = [NoPlugin EXCEPT !.gitignore.file = f, !.gitignore.original = f]

\* initialize(): ensureStorageFile() at the load of the plugin.
Initialize ==
  /\ plugin.gitignore.inits < MaxInits
  /\ ApplyPlugin([plugin EXCEPT
       !.gitignore.file = ensureStorageFile(@),
       !.gitignore.inits = @ + 1])

NextGitignore == Initialize

SpecGitignore == InitGitignore /\ [][NextGitignore]_vars

(***************************************************************************)
(* Vocabulary of the claims.                                               *)
(***************************************************************************)
\* The session exists and its chat modal is open.
SessionOpen == chat.opened /\ chat.open

\* The session is closed: the "close" event was handled or onClose has run.
SessionClosed == chat.opened /\ (child.closeEmitted \/ ~chat.open)

\* The step is the handling of one output chunk / one submission.
EventStep(ops) == hist'.n = hist.n + 1 /\ hist'.op \in ops

\* The records the step appended.
Appended == SubSeq(chat'.outputEl, Len(chat.outputEl) + 1, Len(chat'.outputEl))

RECURSIVE ConcatText(_)
ConcatText(recs) ==
  IF recs = <<>> THEN <<>> ELSE Head(recs).text \o ConcatText(Tail(recs))

IsNotBreak(ch) == ch \notin LineTerminators

WithoutBreaks(s) == SelectSeq(s, IsNotBreak)

CeilDiv(n, d) == (n + d - 1) \div d

\* Whitespace removed from the end only.
TrimEnd(s) == SubSeq(s, 1, TrimEndIndex(s, Len(s)))

NonErrorIndices == {i \in 1..Len(chat.outputEl) : ~chat.outputEl[i].isError}

\* The most recently appended non-error record, trimmed, ends with the sentinel.
LastOutputIsPrompt ==
  /\ NonErrorIndices # {}
  /\ LET last == CHOOSE i \in NonErrorIndices : \A k \in NonErrorIndices : k <= i
     IN EndsWith(Trim(chat.outputEl[last].text), Sentinel)

(***************************************************************************)
(* C1..C10                                                                 *)
(***************************************************************************)
\* C1, in the direction of its own example (a stdout sentinel chunk followed
\* by a stderr chunk): in an open session, while the most recently appended
\* non-error record, trimmed, ends with the sentinel, the mode is
\* Confirmation. appendOutput recomputes the mode from every text it is
\* given, a stderr chunk included, so the statement fails.
C1_PromptRecordKeepsConfirmation ==
  (SessionOpen /\ LastOutputIsPrompt) => Mode(chat) = "Confirmation"

\* C2: once the session is closed, a call of sendMessage (Send, Yes or No)
\* performs no write to stdin. sendMessage has no such guard: applied in a
\* closed state it writes.
C2_NoWriteAfterClosed ==
  SessionClosed =>
    \A override \in {<<>>, <<"y">>, <<"n">>} :
      sendMessage(State, override).child.stdin = child.stdin

\* C3 as stated, on the submissions without a line break (the empty string,
\* a string of more than 995 characters, a string ending with the sentinel,
\* "y", "n"): every submission m writes m + "\n" once, appends exactly one
\* record "You: " + m and leaves the mode FreeText.
C3_OneEchoRecord ==
  [][(EventStep({"send", "yes", "no"}) /\ LineBreaks(hist'.arg) = {}) =>
       /\ child'.stdin = Append(child.stdin, hist'.arg \o Newline)
       /\ Appended = <<[text |-> YouPrefix \o hist'.arg, isError |-> FALSE]>>
       /\ Mode(chat') = "FreeText"]_vars

\* C3 amended: every submission m writes m + "\n" once, appends the echo
\* "You: " + m as one or more non-error records whose concatenation is the
\* echo without its line-break characters, exactly one record "You: " + m
\* when m has no line break and at most 995 characters, and leaves the mode
\* FreeText.
C3_EchoThroughAppendOutput ==
  [][EventStep({"send", "yes", "no"}) =>
       LET m == hist'.arg IN
       /\ child'.stdin = Append(child.stdin, m \o Newline)
       /\ Len(Appended) >= 1
       /\ \A i \in 1..Len(Appended) : ~Appended[i].isError
       /\ ConcatText(Appended) = WithoutBreaks(YouPrefix \o m)
       /\ (LineBreaks(m) = {} /\ Len(m) <= ChunkSize - Len(YouPrefix)) =>
            Appended = <<[text |-> YouPrefix \o m, isError |-> FALSE]>>
       /\ Mode(chat') = "FreeText"]_vars

\* A submission of more than 995 characters was echoed in two records.
C3_Witness ==
  /\ hist.op = "send"
  /\ Len(hist.arg) > ChunkSize - Len(YouPrefix)
  /\ Len(chat.outputEl) = 2
  /\ Mode(chat) = "FreeText"

\* C4: starting a session with command c makes c + "\n" the first write to
\* stdin, before any output is in the transcript, with the text area shown
\* and the yes/no buttons hidden.
C4_StartWritesCommandFirst ==
  /\ chat.opened =>
       /\ Len(child.stdin) >= 1
       /\ child.stdin[1] = hist.command \o Newline
  /\ hist.op = "start" =>
       /\ child.stdin = <<hist.command \o Newline>>
       /\ chat.outputEl = <<>>
       /\ Mode(chat) = "FreeText"
       /\ chat.inputDisplay # "none"
       /\ chat.sendDisplay # "none"
       /\ chat.buttonDisplay = "none"

\* Output has arrived in a session started with a non-empty command.
C4_Witness ==
  /\ hist.command # <<>>
  /\ chat.outputEl # <<>>
  /\ child.stdin[1] = hist.command \o Newline

\* C5: a stdout chunk of length N appends ceil(N / 1000) records whose
\* concatenation is the chunk. The regular expression's "." skips line
\* breaks, so the statement fails on a chunk that holds one.
C5_ChunkingInvariant ==
  [][EventStep({"stdout"}) =>
       /\ Len(Appended) = CeilDiv(Len(hist'.arg), ChunkSize)
       /\ ConcatText(Appended) = hist'.arg]_vars

\* C6: after an output chunk c the mode is Confirmation exactly when c with
\* its trailing whitespace removed ends with the sentinel, case-sensitively.
C6_PromptClassification ==
  hist.op \in {"stdout", "stderr"} =>
    (Mode(chat) = "Confirmation" <=> EndsWith(TrimEnd(hist.arg), Sentinel))

\* A stdout chunk with whitespace on both sides of the sentinel selected the
\* yes/no buttons.
C6_Witness ==
  /\ hist.op = "stdout"
  /\ hist.arg = <<" ">> \o Sentinel \o Newline
  /\ Mode(chat) = "Confirmation"

\* C7: once onClose has run, the session is closed, the process signalled
\* (or gone) and the content empty, and running the teardown again leaves
\* the process and the modal exactly as they are.
C7_CloseIdempotent ==
  hist.onCloseRuns >= 1 =>
    /\ ~chat.open
    /\ ~chat.attached
    /\ child.killed \/ child.exited
    /\ \A rerun \in BOOLEAN :
         /\ close(State, rerun).child = child
         /\ close(State, rerun).chat = chat

\* The teardown has run twice: on dismissal, then from the "close" listener.
C7_Witness ==
  /\ hist.onCloseRuns = 2
  /\ hist.order = <<"dismiss", "close">>

\* C8: the first of (process "close" event, dismissal) tears the session down
\* through onClose, and once the process has closed the session is in the
\* same closed state whichever came first.
C8_TeardownConverges ==
  /\ hist.order # <<>> =>
       /\ hist.onCloseRuns >= 1
       /\ hist.killCalls = hist.onCloseRuns
       /\ ~chat.open
       /\ ~chat.attached
       /\ child.killed \/ child.exited
  /\ hist.order \in {<<>>, <<"dismiss">>, <<"close">>, <<"dismiss", "close">>}
  /\ (hist.order # <<>> /\ hist.order[Len(hist.order)] = "close") =>
       /\ child.exited
       /\ child.closeEmitted
       /\ chat.outputEl # <<>>
       /\ chat.outputEl[Len(chat.outputEl)] =
            [text |-> ClosedPrefix \o FormatCode(child.exitCode), isError |-> FALSE]

\* The user dismissed the modal first and the process closed afterwards.
C8_Witness ==
  /\ hist.order = <<"dismiss", "close">>
  /\ child.killed
  /\ child.closeEmitted

\* C9: a stdout chunk ending with the sentinel selects Confirmation; Yes then
\* writes exactly "y\n" (No: "n\n") to stdin, once, and the mode is FreeText.
C9_ModeRoundTrip ==
  [][/\ (EventStep({"stdout"}) /\ EndsWith(TrimEnd(hist'.arg), Sentinel)) =>
          Mode(chat') = "Confirmation"
     /\ EventStep({"yes"}) =>
          /\ Mode(chat) = "Confirmation"
          /\ child'.stdin = Append(child.stdin, <<"y", "\n">>)
          /\ Mode(chat') = "FreeText"
     /\ EventStep({"no"}) =>
          /\ Mode(chat) = "Confirmation"
          /\ child'.stdin = Append(child.stdin, <<"n", "\n">>)
          /\ Mode(chat') = "FreeText"]_vars

\* Start, a sentinel chunk on stdout, Yes: stdin holds the command and "y\n".
C9_Witness ==
  /\ hist.op = "yes"
  /\ hist.n = 2
  /\ chat.outputEl[1] = [text |-> Sentinel, isError |-> FALSE]
  /\ child.stdin = <<hist.command \o Newline, <<"y", "\n">>>>
  /\ Mode(chat) = "FreeText"

\* C10: a stderr chunk that does not end with the sentinel appends records
\* flagged as errors, leaves the mode FreeText and neither closes the modal
\* nor touches the process; stdout chunks are appended without the flag.
C10_StderrIsFlaggedOnly ==
  [][/\ (EventStep({"stderr"}) /\ ~EndsWith(Trim(hist'.arg), Sentinel)) =>
          /\ Len(Appended) >= 1
          /\ \A i \in 1..Len(Appended) : Appended[i].isError
          /\ SubSeq(chat'.outputEl, 1, Len(chat.outputEl)) = chat.outputEl
          /\ Mode(chat') = "FreeText"
          /\ chat'.open = chat.open
          /\ chat'.attached = chat.attached
          /\ child' = child
          /\ hist'.onCloseRuns = hist.onCloseRuns
          /\ hist'.killCalls = hist.killCalls
     /\ EventStep({"stdout"}) =>
          \A i \in 1..Len(Appended) : ~Appended[i].isError]_vars

\* A stderr chunk arrived in Confirmation mode of an open session.
C10_Witness ==
  /\ hist.op = "stderr"
  /\ hist.n = 2
  /\ SessionOpen
  /\ ~child.killed
  /\ Len(chat.outputEl) = 2
  /\ ~chat.outputEl[1].isError
  /\ chat.outputEl[2].isError
  /\ Mode(chat) = "FreeText"

(***************************************************************************)
(* C11..C20                                                                *)
(***************************************************************************)
\* The step is the handling of the process's "close" event.
CloseEventStep == ~child.closeEmitted /\ child'.closeEmitted

\* The exit notice for the exit statuses of the model, written out.
ExpectedNotice(status) ==
  ClosedPrefix \o
    (CASE status.signal -> <<"n", "u", "l", "l">>
       [] ~status.signal /\ status.code = 0 -> <<"0">>
       [] ~status.signal /\ status.code = 12 -> <<"1", "2">>)

C12_DismissKills ==
  (chat.opened /\ ~chat.open) => hist.killCalls >= 1

\* The modal was dismissed in Confirmation mode, before the process ended.
C12_Witness ==
  /\ hist.order = <<"dismiss">>
  /\ Mode(chat) = "Confirmation"
  /\ ~child.exited
  /\ child.killed
  /\ hist.killCalls = 1

\* The chunks a and b carry the sentinel between them and neither ends with
\* it on its own.
SplitSentinel(a, b) ==
  /\ EndsWith(TrimEnd(a \o b), Sentinel)
  /\ ~EndsWith(TrimEnd(a), Sentinel)
  /\ ~EndsWith(TrimEnd(b), Sentinel)

\* C17: when the sentinel arrives split over two consecutive stdout chunks,
\* the mode is FreeText after the first chunk and after the second.
C17_SplitSentinelUndetected ==
  [][(EventStep({"stdout"}) /\ hist.op = "stdout"
        /\ SplitSentinel(hist.arg, hist'.arg)) =>
       /\ Mode(chat) = "FreeText"
       /\ Mode(chat') = "FreeText"]_vars

\* Two stdout chunks that together are the sentinel have been handled.
C17_Witness ==
  /\ hist.n = 2
  /\ hist.op = "stdout"
  /\ Len(chat.outputEl) = 2
  /\ chat.outputEl[1].text \o chat.outputEl[2].text = Sentinel
  /\ Mode(chat) = "FreeText"

\* C18: every transcript record holds between 1 and 1000 characters.
C18_RecordLengths ==
  \A i \in 1..Len(chat.outputEl) :
    /\ Len(chat.outputEl[i].text) >= 1
    /\ Len(chat.outputEl[i].text) <= ChunkSize

\* A stderr text of 1001 characters gave a record of 1000 and one of 1, and
\* the exit notice followed.
C18_Witness ==
  /\ Len(chat.outputEl) = 3
  /\ chat.outputEl[1].isError
  /\ Len(chat.outputEl[1].text) = ChunkSize
  /\ Len(chat.outputEl[2].text) = 1
  /\ child.closeEmitted

\* C19: a stderr chunk that does not end with the sentinel leaves the mode as
\* it was. appendOutput calls showInputArea() for it, so a session in
\* Confirmation mode falls back to FreeText.
C19_StderrKeepsMode ==
  [][(EventStep({"stderr"}) /\ ~EndsWith(Trim(hist'.arg), Sentinel)) =>
       Mode(chat') = Mode(chat)]_vars

\* The state right after a session was started with the empty command.
FreshSession ==
  startSession([child |-> NoChild, chat |-> NoChat, hist |-> NoHist], <<>>)

\* C20: whatever the history of the session, the mode after handling an
\* output chunk is the mode a fresh session has after the same chunk.
C20_ModeMemoryless ==
  chat.opened =>
    \A d \in StdoutChunks \cup StderrChunks \cup Drafts :
      /\ Mode(appendOutput(State, d, FALSE).chat)
           = Mode(appendOutput(FreshSession, d, FALSE).chat)
      /\ Mode(appendOutput(State, ErrorPrefix \o d, TRUE).chat)
           = Mode(appendOutput(FreshSession, ErrorPrefix \o d, TRUE).chat)

\* A session with two events behind it stands in Confirmation mode.
C20_Witness ==
  /\ hist.n >= 2
  /\ Mode(chat) = "Confirmation"
  /\ chat.inputValue # <<>>
  /\ SessionOpen

\* C14: while the mode is Confirmation the only payloads that can be written
\* to stdin are "y\n" and "n\n" (no free text can be sent), in every variant
\* of the chat modal. The modal of src/unnamed/part_002 never hides its Send
\* button, so the draft can be sent in Confirmation mode.
C14_ConfirmationWritesOnlyYesNo ==
  [][(chat.open /\ Mode(chat) = "Confirmation"
         /\ child'.stdin # child.stdin) =>
       child'.stdin \in {Append(child.stdin, <<"y", "\n">>),
                         Append(child.stdin, <<"n", "\n">>)}]_vars

\* A session is active while its process runs and its chat modal is open.
Active(s) == s.st.child.spawned /\ ~s.st.child.exited /\ s.st.chat.open

\* C13: at most one session is active at any time, for any interleaving of
\* 'AI Command' invocations, command submissions and the asynchronous
\* installation and path checks. Two invocations made while the first check
\* is pending each lead to a spawned process with an open chat modal.
C13_AtMostOneSession ==
  Cardinality({k \in DOMAIN plugin.sessions : Active(plugin.sessions[k])}) <= 1

\* Flags of the interpreter's command line that run code without asking.
AutoRunFlags == {"-y", "--auto_run", "--auto-run"}

\* C15: the plugin never answers the confirmation prompt on its own. Every
\* write to a process's stdin is the command entered by the user or the result
\* of one Send, Yes or No of the user, so a session has 1 + (submit actions)
\* writes, the first one being the command, and the spawn arguments hold no
\* auto-run flag.
C15_NoAutoAnswer ==
  \A k \in DOMAIN plugin.sessions :
    LET s == plugin.sessions[k]
    IN /\ Len(s.st.child.stdin) = 1 + s.submits
       /\ s.st.child.stdin[1] = plugin.invocations[s.inv].command \o Newline
       /\ \A j \in DOMAIN s.args : s.args[j] \notin AutoRunFlags

\* A prompt has been shown and the user has answered it with Yes.
C15_Witness ==
  \E k \in DOMAIN plugin.sessions :
    LET s == plugin.sessions[k]
    IN /\ s.st.hist.op = "yes"
       /\ s.submits = 1
       /\ s.st.child.stdin = <<<<"l", "s", "\n">>, <<"y", "\n">>>>
       /\ \E j \in DOMAIN s.st.chat.outputEl :
            EndsWith(TrimEnd(s.st.chat.outputEl[j].text), Sentinel)

\* The installation check of an invocation failed: the lookup reported an
\* error or printed an empty path.
CheckFailed(v) == v.result.error \/ Trim(v.result.stdout) = <<>>

\* What an invocation has created besides the installation guide.
CreatedBeyondGuide(i) ==
  \/ plugin.invocations[i].input
  \/ plugin.invocations[i].submitted
  \/ plugin.invocations[i].exec # "none"
  \/ \E k \in DOMAIN plugin.sessions : plugin.sessions[k].inv = i
  \/ \E m \in DOMAIN plugin.modals :
       plugin.modals[m].id = i /\ plugin.modals[m].kind = "input"

\* C16: an invocation whose installation check failed shows the installation
\* guide and creates no command-input modal, process or chat modal; the
\* command-input modal is opened only after a successful check.
C16_InstallationCheckGates ==
  \A i \in DOMAIN plugin.invocations :
    LET v == plugin.invocations[i]
    IN /\ (v.phase = "done" /\ CheckFailed(v)) => (v.guide /\ ~CreatedBeyondGuide(i))
       /\ v.phase # "done" => (~v.guide /\ ~CreatedBeyondGuide(i))
       /\ CreatedBeyondGuide(i) => (v.phase = "done" /\ ~CheckFailed(v) /\ ~v.guide)

\* Two invocations whose checks ran side by side: one failed on a blank
\* path and shows the guide, the other one has started a session.
C16_Witness ==
  \E i, j \in DOMAIN plugin.invocations :
    /\ plugin.invocations[i].guide
    /\ ~plugin.invocations[i].result.error
    /\ CheckFailed(plugin.invocations[i])
    /\ plugin.invocations[j].exec = "spawned"

(***************************************************************************)
(* C21..C29                                                                *)
(***************************************************************************)
\* An element is shown unless its style.display is "none".
Visible(display) == display # "none"

\* Exactly one input affordance of chat modal c is shown: the text area with
\* the Send button, or the Yes/No buttons.
OneAffordance(c) ==
  \/ Visible(c.inputDisplay) /\ Visible(c.sendDisplay) /\ ~Visible(c.buttonDisplay)
  \/ ~Visible(c.inputDisplay) /\ ~Visible(c.sendDisplay) /\ Visible(c.buttonDisplay)

\* C21: in every reachable state of an open chat modal of src/main.ts
\* exactly one input affordance is visible (text area with Send, or Yes/No),
\* and a "y"/"n" submission happens only while the mode is Confirmation.
C21_OneAffordanceVisible ==
  [][/\ chat'.open => OneAffordance(chat')
     /\ EventStep({"yes", "no"}) => (chat.open /\ Mode(chat) = "Confirmation"
                                      /\ ~Visible(chat.sendDisplay))]_vars

\* A prompt is pending in an open modal after a Yes has already been sent.
C21_Witness ==
  /\ chat.open
  /\ Mode(chat) = "Confirmation"
  /\ \E i \in DOMAIN child.stdin : child.stdin[i] = <<"y", "\n">>

\* s is an initial segment of t.
IsPrefix(s, t) == Len(s) <= Len(t) /\ SubSeq(t, 1, Len(s)) = s

\* C22: while the session is open the transcript is append-only: every
\* handler (output, error output, submission echo, exit notice) leaves the
\* earlier transcript as a prefix of the later one; nothing is removed or
\* reordered before onClose.
C22_TranscriptAppendOnly ==
  [][chat.open => IsPrefix(chat.outputEl, chat'.outputEl)]_vars

\* An open modal whose transcript holds an output record, an error record
\* and a submission echo.
C22_Witness ==
  /\ chat.open
  /\ Len(chat.outputEl) >= 3
  /\ \E i \in DOMAIN chat.outputEl : chat.outputEl[i].isError
  /\ \E i \in DOMAIN chat.outputEl :
       IsPrefix(YouPrefix, chat.outputEl[i].text)
  /\ chat.outputEl[1].text = <<"o", "k">>

\* The payload the submit action of this step hands to the process.
Submission ==
  IF hist'.op = "yes" THEN <<"y">>
  ELSE IF hist'.op = "no" THEN <<"n">> ELSE chat.inputValue

\* C23: the payloads written to stdin are the command followed by the user's
\* submissions in the order of the submit actions, each followed by one "\n":
\* the start writes the command, each Send, Yes or No appends its payload, and
\* no other step (output, exit, close, dismissal) changes what was written.
C23_StdinFollowsSubmissions ==
  [][/\ hist'.op = "start" /\ ~child.spawned =>
          child'.stdin = <<hist'.command \o Newline>>
     /\ EventStep({"send", "yes", "no"}) =>
          child'.stdin = Append(child.stdin, Submission \o Newline)
     /\ ~(hist'.op = "start" /\ ~child.spawned)
          /\ ~EventStep({"send", "yes", "no"}) => child'.stdin = child.stdin]_vars

\* A draft and a Yes were submitted with output in between, and the process
\* has ended since.
C23_Witness ==
  /\ child.stdin = <<<<"l", "s", "\n">>, <<"h", "i", "\n">>, <<"y", "\n">>>>
  /\ child.exited
  /\ \E i \in DOMAIN chat.outputEl :
       EndsWith(TrimEnd(chat.outputEl[i].text), Sentinel)

\* The sessions started by invocation i.
SessionsOf(i) == {k \in DOMAIN plugin.sessions : plugin.sessions[k].inv = i}

\* The path lookup of invocation i has returned.
LookupDone(i) == plugin.invocations[i].exec \notin {"none", "lookup"}

\* A precondition of the dispatch of invocation i is known to have failed.
PreconditionFailed(i) ==
  /\ plugin.invocations[i].submitted
  /\ \/ ~plugin.hasVault
     \/ LookupDone(i) /\ ~plugin.invocations[i].found
     \/ LookupDone(i) /\ ~plugin.hasKey

\* C24: when the vault path, the interpreter executable or the API key is
\* missing, executeInterpreterCommand spawns no process, writes to no stdin
\* and opens no chat modal; an invocation has a session (one at most) only
\* when all three were available.
C24_FailedPreconditionNoSession ==
  \A i \in DOMAIN plugin.invocations :
    /\ PreconditionFailed(i) =>
         /\ SessionsOf(i) = {}
         /\ plugin.invocations[i].exec \in {"noVault", "noPath", "noKey"}
    /\ SessionsOf(i) # {} =>
         /\ Cardinality(SessionsOf(i)) = 1
         /\ plugin.hasVault /\ plugin.invocations[i].found /\ plugin.hasKey
    /\ \A m \in DOMAIN plugin.modals :
         plugin.modals[m].kind = "chat" =>
           plugin.modals[m].id \in DOMAIN plugin.sessions
    /\ Len(plugin.sessions) <= Cardinality({j \in DOMAIN plugin.invocations :
                                             plugin.invocations[j].exec = "spawned"})

\* One dispatch ended on a missing executable while another one, in the same
\* vault and with the same settings, started its session.
C24_Witness ==
  \E i, j \in DOMAIN plugin.invocations :
    /\ plugin.invocations[i].exec = "noPath"
    /\ SessionsOf(i) = {}
    /\ \E k \in SessionsOf(j) :
         plugin.sessions[k].st.child.stdin = <<<<"l", "s", "\n">>>>

\* How often the "close" listener of the process has run.
CloseEvents == Cardinality({i \in DOMAIN hist.order : hist.order[i] = "close"})

\* The user has dismissed the modal while the process was running.
DismissedWhileRunning == hist.order = <<"dismiss">> /\ child.killed /\ ~child.exited

\* The session is closed for good: no handler can run any more.
Quiescent ==
  /\ child.exited
  /\ child.closeEmitted
  /\ ~chat.open
  /\ ~chat.attached
  /\ hist.order = <<"dismiss", "close">>
  /\ ~ENABLED NextTeardown

\* C25: teardown terminates. After the user dismisses the modal of a running
\* process, onClose kills it, its "close" event re-enters close() once, and
\* the session then rests in a closed state; the "close" event is handled at
\* most once and onClose (with its kill) runs at most twice per session.
C25_TeardownTerminates ==
  /\ [](CloseEvents <= 1 /\ hist.onCloseRuns <= 2 /\ hist.killCalls <= 2)
  /\ DismissedWhileRunning ~> Quiescent

\* The session at rest after dismissal, kill and the "close" event, with
\* onClose run a second time by the listener.
C25_Witness ==
  /\ Quiescent
  /\ child.killed
  /\ hist.killCalls = 2
  /\ Len(chat.outputEl) >= 2

\* The exit notice of the session.
NoticeRecord(status) == [text |-> ExpectedNotice(status), isError |-> FALSE]

\* C26: the exit notice is the last record of a session. Output is handled
\* only before the "close" event of the process, the notice is appended at
\* the end of the transcript, and nothing is appended after it.
C26_ExitNoticeIsLast ==
  [][/\ EventStep({"stdout", "stderr"}) => ~child.closeEmitted
     /\ child.closeEmitted => chat'.outputEl = chat.outputEl
     /\ child'.closeEmitted =>
          /\ chat'.outputEl # <<>>
          /\ chat'.outputEl[Len(chat'.outputEl)] = NoticeRecord(child'.exitCode)
          /\ CloseEventStep =>
               SubSeq(chat'.outputEl, 1, Len(chat'.outputEl) - 1) = chat.outputEl]_vars

\* A session that ended by a signal after output, error output and a
\* dismissal: the notice closes its transcript.
C26_Witness ==
  /\ child.closeEmitted
  /\ child.exitCode.signal
  /\ hist.order = <<"dismiss", "close">>
  /\ Len(chat.outputEl) >= 3
  /\ chat.outputEl[1].text = <<"o", "k">>
  /\ \E i \in DOMAIN chat.outputEl : chat.outputEl[i].isError
  /\ chat.outputEl[Len(chat.outputEl)] = NoticeRecord(child.exitCode)

\* The step changes nothing of the process but its stdin, and nothing of the
\* modal but the transcript, the text area's value and the visibility of the
\* input affordances.
SubmitFrame ==
  /\ [child' EXCEPT !.stdin = child.stdin] = child
  /\ [chat' EXCEPT !.outputEl = chat.outputEl,
                   !.inputValue = chat.inputValue,
                   !.inputDisplay = chat.inputDisplay,
                   !.buttonDisplay = chat.buttonDisplay,
                   !.sendDisplay = chat.sendDisplay] = chat

\* C27: Yes and No leave the draft in the text area as it is, Send clears the
\* text area after reading it, and either submission changes only the
\* transcript, the stdin stream and the visibility of the affordances.
C27_DraftKeptByYesNo ==
  [][/\ EventStep({"yes", "no"}) =>
          (chat'.inputValue = chat.inputValue /\ SubmitFrame)
     /\ EventStep({"send"}) =>
          /\ chat'.inputValue = <<>>
          /\ child'.stdin = Append(child.stdin, chat.inputValue \o Newline)
          /\ SubmitFrame]_vars

\* A draft typed before the prompt arrived is still in the text area after
\* the user answered Yes.
C27_Witness ==
  /\ hist.op = "yes"
  /\ chat.inputValue = Hi
  /\ Visible(chat.inputDisplay)

\* The model named by the --model argument of session s, without the prefix
\* that executeInterpreterCommand puts before a Groq model.
ModelArgBelongsTo(s, provider) ==
  \E i \in DOMAIN getModelsForProvider(provider) :
    s.args[2] = (IF provider = "Groq" THEN "groq/" ELSE "")
                  \o getModelsForProvider(provider)[i]

\* C28: after every completed provider change settings.model is one of the
\* models of settings.provider, and the --model argument of every spawned
\* process belongs to the provider whose API key it was given, under any
\* interleaving of the settings tab with a dispatch. A dispatch that resumes
\* between the assignment of the provider and updateModelOptions spawns the
\* process with the new provider's key and the old provider's model.
C28_ModelMatchesProvider ==
  /\ (plugin.tab.displayed /\ plugin.tab.pending = 0) =>
       InSeq(plugin.settings.model, getModelsForProvider(plugin.settings.provider))
  /\ \A k \in DOMAIN plugin.sessions :
       ModelArgBelongsTo(plugin.sessions[k], plugin.sessions[k].keyOf)

\* The content read from a .gitignore.
ContentOf(file) == IF file.exists THEN file.content ELSE <<>>

\* Number of lines that are the pattern once trimmed.
PatternLines(content) ==
  Cardinality({i \in DOMAIN Split(content) : Trim(Split(content)[i]) = ignorePattern})

====
